---------------------------- MODULE Spec2Model ----------------------------
(***************************************************************************)
(* A model of ModPatcherJsonGenerator (src/src/main.rs): an interactive    *)
(* terminal utility that keeps an ordered list of Items and prints it as   *)
(* JSON.                                                                   *)
(*                                                                         *)
(* A Rust String is modelled as a sequence of one-character strings, so    *)
(* that trim, to_uppercase, to_lowercase, eq_ignore_ascii_case and         *)
(* parse::<usize> are computed character by character as the code does.    *)
(*                                                                         *)
(* The program blocks on standard input at each prompt.  One step of the   *)
(* model is one call of read_user_input together with everything the       *)
(* program does with the line until it blocks on the next prompt (or       *)
(* ends).  pc names the prompt the program is blocked on.                  *)
(***************************************************************************)
EXTENDS Integers, Sequences, FiniteSets, TLC

VARIABLES
    items,           \* main: `items: Vec<Item>`
    pc,              \* the prompt the process is blocked on, or how it ended
    item,            \* read_user_item: the local `item` under construction
    user_item_idx,   \* ModifyItemCommand::execute: the selected zero-based index
    input,           \* the outcome of the last std::io::stdin().read_line
    out,             \* what the last step wrote to stdout (warning, JSON, listing)
    exit_code,       \* <<>> while running, <<code>> once the process has ended
    executed         \* the TerminalCommand whose execute() returned to main's
                     \* loop in the last step ("" when none did)

vars == <<items, pc, item, user_item_idx, input, out, exit_code, executed>>

---------------------------------------------------------------------------
(* Bounds of the model *)

\* Add is not offered once the list holds MaxItems items.
MaxItems == 2

---------------------------------------------------------------------------
(* Characters and strings *)

LowerLetters ==
    <<"a","b","c","d","e","f","g","h","i","j","k","l","m",
      "n","o","p","q","r","s","t","u","v","w","x","y","z">>

UpperLetters ==
    <<"A","B","C","D","E","F","G","H","I","J","K","L","M",
      "N","O","P","Q","R","S","T","U","V","W","X","Y","Z">>

Digits == <<"0","1","2","3","4","5","6","7","8","9">>

\* char::is_whitespace, restricted to the white space of the input lines
is_whitespace(c) == c \in {" ", "\t", "\n", "\r"}

IndexIn(seq, c) == CHOOSE i \in 1..Len(seq) : seq[i] = c

Occurs(seq, c) == \E i \in 1..Len(seq) : seq[i] = c

\* char::to_ascii_uppercase / the one-character case mapping of to_uppercase
upper_char(c) == IF Occurs(LowerLetters, c) THEN UpperLetters[IndexIn(LowerLetters, c)] ELSE c

\* char::to_ascii_lowercase / the one-character case mapping of to_lowercase
lower_char(c) == IF Occurs(UpperLetters, c) THEN LowerLetters[IndexIn(UpperLetters, c)] ELSE c

\* str::to_uppercase
to_uppercase(s) == [i \in 1..Len(s) |-> upper_char(s[i])]

\* str::to_lowercase
to_lowercase(s) == [i \in 1..Len(s) |-> lower_char(s[i])]

\* str::eq_ignore_ascii_case
eq_ignore_ascii_case(a, b) ==
    /\ Len(a) = Len(b)
    /\ \A i \in 1..Len(a) : lower_char(a[i]) = lower_char(b[i])

RECURSIVE trim_start(_)
trim_start(s) ==
    IF s # <<>> /\ is_whitespace(Head(s)) THEN trim_start(Tail(s)) ELSE s

RECURSIVE trim_end(_)
trim_end(s) ==
    IF s # <<>> /\ is_whitespace(s[Len(s)]) THEN trim_end(SubSeq(s, 1, Len(s) - 1)) ELSE s

\* Mutant: only the end of the line is stripped.
trim_EndOnly(s) == trim_end(s)

\* str::trim
trim(s) == trim_end(trim_start(s))

\* Mutant: the emptiness check is dropped.
str_is_empty_NoCheck(s) == FALSE

\* String::is_empty
str_is_empty(s) == Len(s) = 0

---------------------------------------------------------------------------
(* Action *)

Add == "Add"
Delete == "Delete"
Update == "Update"

Action == {Add, Delete, Update}

S_ADD == <<"A","D","D">>
S_DELETE == <<"D","E","L","E","T","E">>
S_UPDATE == <<"U","P","D","A","T","E">>

\* Mutant: the Delete arm returns the string of Update.
to_str_WrongArm(a) ==
    CASE a = Add -> S_ADD
      [] a = Delete -> S_UPDATE
      [] a = Update -> S_UPDATE

\* Action::to_str
to_str(a) ==
    CASE a = Add -> S_ADD
      [] a = Delete -> S_DELETE
      [] a = Update -> S_UPDATE

\* Mutant: an unrecognized string parses as the default action.
try_from_DefaultsToAdd(value) ==
    IF eq_ignore_ascii_case(value, S_ADD) THEN [ok |-> TRUE, action |-> Add]
    ELSE IF eq_ignore_ascii_case(value, S_DELETE) THEN [ok |-> TRUE, action |-> Delete]
    ELSE IF eq_ignore_ascii_case(value, S_UPDATE) THEN [ok |-> TRUE, action |-> Update]
    ELSE [ok |-> TRUE, action |-> Add]

\* Mutant: the comparison with the canonical strings is case-sensitive.
try_from_CaseSensitive(value) ==
    IF value = S_ADD THEN [ok |-> TRUE, action |-> Add]
    ELSE IF value = S_DELETE THEN [ok |-> TRUE, action |-> Delete]
    ELSE IF value = S_UPDATE THEN [ok |-> TRUE, action |-> Update]
    ELSE [ok |-> FALSE, action |-> Add]

\* <Action as TryFrom<&str>>::try_from
try_from(value) ==
    IF eq_ignore_ascii_case(value, S_ADD) THEN [ok |-> TRUE, action |-> Add]
    ELSE IF eq_ignore_ascii_case(value, S_DELETE) THEN [ok |-> TRUE, action |-> Delete]
    ELSE IF eq_ignore_ascii_case(value, S_UPDATE) THEN [ok |-> TRUE, action |-> Update]
    ELSE [ok |-> FALSE, action |-> Add]

---------------------------------------------------------------------------
(* Item *)

\* <Item as Default>::default
ItemDefault == [filename |-> <<>>, action |-> Add, download_link |-> <<>>]

---------------------------------------------------------------------------
(* Messages written to stdout *)

INVALID_INPUT_MSG == "WARNING: Invalid input, please try again."
FILENAME_EMPTY_MSG == "WARNING: filename is empty, please try again."
OUT_OF_BOUNDS_MSG == "WARNING: index out of bounds, please try again."
NO_ITEMS_MODIFY_MSG == "WARNING: no items, cannot modify."
NO_ITEMS_DELETE_MSG == "WARNING: no items, cannot delete."
NO_ITEMS_SHOW_MSG == "WARNING: no items, cannot show."
NoMsg == ""

\* What one step writes: at most one warning, at most one JSON document
\* (json = <<>> or <<array>>), at most one enumerated listing
\* (listing = <<>> or <<items>>).
Output(msg, json, listing) == [msg |-> msg, json |-> json, listing |-> listing]

Silent == Output(NoMsg, <<>>, <<>>)

Warn(msg) == Output(msg, <<>>, <<>>)


---------------------------------------------------------------------------
(* str::parse::<usize> *)

\* usize::MAX = 2^64 - 1 in decimal digits (64-bit target).  TLC's integers
\* are 32 bits wide, so the overflow test of checked_mul/checked_add is made
\* on the digits: a digit string overflows iff, leading zeros apart, it is
\* longer than usize::MAX or as long and lexicographically greater.
USIZE_MAX_DIGITS == <<"1","8","4","4","6","7","4","4","0","7","3","7","0","9","5","5","1","6","1","5">>

is_digit(c) == Occurs(Digits, c)

digit_value(c) == IndexIn(Digits, c) - 1

RECURSIVE strip_zeros(_)
strip_zeros(s) == IF s # <<>> /\ Head(s) = "0" THEN strip_zeros(Tail(s)) ELSE s

RECURSIVE digits_greater(_, _)
\* a > b for two digit strings of the same length
digits_greater(a, b) ==
    IF a = <<>> THEN FALSE
    ELSE IF digit_value(Head(a)) # digit_value(Head(b))
         THEN digit_value(Head(a)) > digit_value(Head(b))
         ELSE digits_greater(Tail(a), Tail(b))

pos_overflow(digits) ==
    LET d == strip_zeros(digits)
    IN \/ Len(d) > Len(USIZE_MAX_DIGITS)
       \/ Len(d) = Len(USIZE_MAX_DIGITS) /\ digits_greater(d, USIZE_MAX_DIGITS)

RECURSIVE digits_value(_, _)
\* result = result * 10 + digit, left to right
digits_value(acc, s) ==
    IF s = <<>> THEN acc ELSE digits_value(acc * 10 + digit_value(Head(s)), Tail(s))

\* usize::from_str: Err on the empty string, on a lone sign, on any character
\* that is no decimal digit (a leading "+" is accepted, a "-" is not for an
\* unsigned type) and on overflow; Ok(value) otherwise.
parse_usize(s) ==
    LET digits == IF s # <<>> /\ Head(s) = "+" THEN Tail(s) ELSE s
    IN IF s = <<>> \/ digits = <<>> THEN [ok |-> FALSE, value |-> 0]
       ELSE IF \E i \in 1..Len(digits) : ~is_digit(digits[i]) THEN [ok |-> FALSE, value |-> 0]
       ELSE IF pos_overflow(digits) THEN [ok |-> FALSE, value |-> 0]
       ELSE [ok |-> TRUE, value |-> digits_value(0, strip_zeros(digits))]

\* Mutant: saturating_sub(1) in place of checked_sub(1).
checked_sub_1_Saturating(idx) == [some |-> TRUE, value |-> IF idx >= 1 THEN idx - 1 ELSE 0]

\* usize::checked_sub(1): None on 0
checked_sub_1(idx) == IF idx >= 1 THEN [some |-> TRUE, value |-> idx - 1] ELSE [some |-> FALSE, value |-> 0]

---------------------------------------------------------------------------
(* JSON emission *)

\* The object serde_json::json! builds for one item, as the sequence of its
\* entries in the order to_string_pretty writes them: a Map iterates in
\* insertion order with the feature "preserve_order" and in the sorted order
\* of its keys (a BTreeMap) without it.
json_object(it, preserve) ==
    IF preserve
    THEN << [key |-> "mod_filename", value |-> it.filename],
            [key |-> "action", value |-> to_str(it.action)],
            [key |-> "download_link", value |-> it.download_link] >>
    ELSE << [key |-> "action", value |-> to_str(it.action)],
            [key |-> "download_link", value |-> it.download_link],
            [key |-> "mod_filename", value |-> it.filename] >>

\* print_items_json: the JSON array written, one object per item
print_items_json(its, preserve) == [i \in 1..Len(its) |-> json_object(its[i], preserve)]

\* Whether the serde_json this program is built with preserves insertion
\* order is decided by the crate's features, not by main.rs: both builds
\* are possible.
MapOrders == BOOLEAN

---------------------------------------------------------------------------
(* Lines of standard input *)

NL(s) == s \o <<"\n">>

EOF == <<>>

\* Offered at every prompt: end of input and a line of white space only.
BlankLines == { EOF, <<" ", "\t", "\n">> }

CommandLines ==
    { NL(<<"q">>), NL(<<"a">>), NL(<<"m">>), NL(<<"d">>), NL(<<"s">>),
      NL(<<"A">>), NL(<<"M">>), <<" ", "S", " ", "\n">>, NL(<<"x">>) }

TextLines == { NL(<<"a">>), <<" ", "b", "\r", "\n">> }

ActionLines ==
    { NL(S_ADD), <<" ", "a", "d", "d", " ", "\n">>, NL(<<"D","e","l","e","t","e">>),
      NL(<<"u","P","D","A","T","E">>), NL(<<"R","E","M","O","V","E">>) }

IndexLines ==
    { NL(<<Digits[n + 1]>>) : n \in 0..(MaxItems + 1) }
      \cup { <<" ", "+", "0", "1", " ", "\n">>, NL(<<"q">>), NL(<<"-", "1">>),
             NL(<<"1","8","4","4","6","7","4","4","0","7","3","7","0","9","5","5","1","6","1","6">>) }

ChoiceLines ==
    { NL(<<"1">>), NL(<<"2">>), NL(<<"3">>), NL(<<"4">>), NL(<<"q">>) }

\* What the environment does to one call of read_user_input: the prompt is
\* written and flushed (flushed) or stdout fails; read_line returns Ok with
\* the line in the buffer (Ok(0) and an empty buffer at end of input) or Err.
ReadOk(buf) == [flushed |-> TRUE, ok |-> TRUE, buf |-> buf]
ReadErr == [flushed |-> TRUE, ok |-> FALSE, buf |-> <<>>]
FlushErr == [flushed |-> FALSE, ok |-> FALSE, buf |-> <<>>]

Reads(lines) == { ReadOk(b) : b \in lines \cup BlankLines } \cup { ReadErr, FlushErr }

\* The outcomes offered at each kind of prompt.
CommandReads == Reads(CommandLines)
TextReads == Reads(TextLines)
ActionReads == Reads(ActionLines)
IndexReads == Reads(IndexLines)
ChoiceReads == Reads(ChoiceLines)

\* Mutant: a failed read_line hands the stale text "q" to the caller.
read_user_input_ErrQuits(r) ==
    [panicked |-> ~r.flushed,
     text |-> IF ~r.flushed THEN <<>>
              ELSE IF r.ok THEN trim(r.buf)
              ELSE <<"q">>]

\* Mutant: the result of read_line is unwrapped.
read_user_input_Unwrap(r) ==
    IF ~r.flushed \/ ~r.ok THEN [panicked |-> TRUE, text |-> <<>>]
    ELSE [panicked |-> FALSE, text |-> trim(r.buf)]

\* read_user_input: panics (expect) when stdout cannot be flushed; otherwise
\* returns the trimmed line, or the empty string when read_line failed.
read_user_input(r) ==
    IF ~r.flushed THEN [panicked |-> TRUE, text |-> <<>>]
    ELSE IF r.ok THEN [panicked |-> FALSE, text |-> trim(r.buf)]
    ELSE [panicked |-> FALSE, text |-> <<>>]

---------------------------------------------------------------------------
(* Vec<Item> *)

\* Mutant: the item is inserted at the front.
push_Front(v, x) == <<x>> \o v

\* Vec::push
push(v, x) == Append(v, x)

\* Mutant: pop() in place of remove(index).
remove_Last(v, index) == SubSeq(v, 1, Len(v) - 1)

\* Vec::remove(index), index zero-based and in bounds
remove(v, index) == SubSeq(v, 1, index) \o SubSeq(v, index + 2, Len(v))

\* Vec::is_empty
is_empty(v) == Len(v) = 0

---------------------------------------------------------------------------
(* The state machine *)

EXIT_SUCCESS == 0
PANIC_EXIT == 101

Running == pc \notin {"exited", "panicked"}

Init ==
    /\ items = <<>>
    /\ pc = "command"
    /\ item = ItemDefault
    /\ user_item_idx = 0
    /\ input = ReadOk(EOF)
    /\ out = Silent
    /\ exit_code = <<>>
    /\ executed = ""

\* A panic unwinds main: the process ends with Rust's panic exit code.
Panic ==
    /\ pc' = "panicked"
    /\ exit_code' = <<PANIC_EXIT>>
    /\ out' = Silent
    /\ executed' = ""
    /\ UNCHANGED <<items, item, user_item_idx>>

\* Block on the next prompt `next` of the running command, having written `o`.
Goto(next, o) ==
    /\ pc' = next
    /\ out' = o
    /\ exit_code' = exit_code
    /\ executed' = ""

\* execute() of `command` returns, having written `o`: main's loop calls
\* get_terminal_action again.
Return(command, o) ==
    /\ pc' = "command"
    /\ out' = o
    /\ exit_code' = exit_code
    /\ executed' = command

\* Mutant: an index past the end is clamped to the last item.
read_item_idx_Clamp(user_input, its) ==
    LET parsed == parse_usize(user_input)
        subbed == checked_sub_1(parsed.value)
    IN IF parsed.ok
       THEN IF subbed.some /\ subbed.value < Len(its)
            THEN [accepted |-> TRUE, idx |-> subbed.value, msg |-> NoMsg]
            ELSE IF subbed.some
                 THEN [accepted |-> TRUE, idx |-> Len(its) - 1, msg |-> NoMsg]
                 ELSE [accepted |-> FALSE, idx |-> 0, msg |-> OUT_OF_BOUNDS_MSG]
       ELSE [accepted |-> FALSE, idx |-> 0, msg |-> INVALID_INPUT_MSG]

\* read_item_idx, one turn of its loop on the line just read: the accepted
\* zero-based index, or the warning written before the list is printed again.
read_item_idx(user_input, its) ==
    LET parsed == parse_usize(user_input)
        subbed == checked_sub_1(parsed.value)
    IN IF parsed.ok
       THEN IF subbed.some /\ subbed.value < Len(its)
            THEN [accepted |-> TRUE, idx |-> subbed.value, msg |-> NoMsg]
            ELSE [accepted |-> FALSE, idx |-> 0, msg |-> OUT_OF_BOUNDS_MSG]
       ELSE [accepted |-> FALSE, idx |-> 0, msg |-> INVALID_INPUT_MSG]

\* Mutant: the token is matched as typed, without to_lowercase.
terminal_action_AsTyped(user_input) ==
    CASE user_input = <<"q">> -> "Quit"
      [] user_input = <<"a">> -> "AddItem"
      [] user_input = <<"m">> -> "ModifyItem"
      [] user_input = <<"d">> -> "DeleteItem"
      [] user_input = <<"s">> -> "Show"
      [] OTHER -> ""

\* get_terminal_action: the TerminalAction a token selects ("" for none)
terminal_action(user_input) ==
    LET t == to_lowercase(user_input)
    IN CASE t = <<"q">> -> "Quit"
         [] t = <<"a">> -> "AddItem"
         [] t = <<"m">> -> "ModifyItem"
         [] t = <<"d">> -> "DeleteItem"
         [] t = <<"s">> -> "Show"
         [] OTHER -> ""

\* Mutant: process::exit is inside the `if`, so Quit returns on an empty list.
QuitExecute_ExitOnlyAfterPrint ==
    /\ IF ~is_empty(items)
       THEN /\ pc' = "exited"
            /\ exit_code' = <<EXIT_SUCCESS>>
            /\ executed' = ""
            /\ \E preserve_order \in MapOrders :
                  out' = Output(NoMsg, <<print_items_json(items, preserve_order)>>, <<>>)
       ELSE Return("Quit", Silent)
    /\ UNCHANGED <<items, item, user_item_idx>>

\* QuitCommand::execute
QuitExecute ==
    /\ pc' = "exited"
    /\ exit_code' = <<EXIT_SUCCESS>>
    /\ executed' = ""
    /\ IF ~is_empty(items)
       THEN \E preserve_order \in MapOrders :
                out' = Output(NoMsg, <<print_items_json(items, preserve_order)>>, <<>>)
       ELSE out' = Silent
    /\ UNCHANGED <<items, item, user_item_idx>>

\* AddItemCommand::execute up to the first prompt of read_user_item
AddExecute ==
    /\ item' = ItemDefault
    /\ Goto("add_filename", Silent)
    /\ UNCHANGED <<items, user_item_idx>>

\* ModifyItemCommand::execute up to the first prompt of read_item_idx
ModifyExecute ==
    /\ IF is_empty(items)
       THEN Return("ModifyItem", Warn(NO_ITEMS_MODIFY_MSG))
       ELSE Goto("modify_idx", Output(NoMsg, <<>>, <<items>>))
    /\ UNCHANGED <<items, item, user_item_idx>>

\* Mutant: the is_empty guard is dropped.
DeleteExecute_NoGuard ==
    /\ Goto("delete_idx", Output(NoMsg, <<>>, <<items>>))
    /\ UNCHANGED <<items, item, user_item_idx>>

\* DeleteItemCommand::execute up to the first prompt of read_item_idx
DeleteExecute ==
    /\ IF is_empty(items)
       THEN Return("DeleteItem", Warn(NO_ITEMS_DELETE_MSG))
       ELSE Goto("delete_idx", Output(NoMsg, <<>>, <<items>>))
    /\ UNCHANGED <<items, item, user_item_idx>>

\* Mutant: the is_empty guard of Show is dropped.
ShowExecute_NoGuard ==
    /\ \E preserve_order \in MapOrders :
          Return("Show", Output(NoMsg, <<print_items_json(items, preserve_order)>>, <<>>))
    /\ UNCHANGED <<items, item, user_item_idx>>

\* ShowItemsCommand::execute
ShowExecute ==
    /\ IF is_empty(items)
       THEN Return("Show", Warn(NO_ITEMS_SHOW_MSG))
       ELSE \E preserve_order \in MapOrders :
                Return("Show", Output(NoMsg, <<print_items_json(items, preserve_order)>>, <<>>))
    /\ UNCHANGED <<items, item, user_item_idx>>

\* main's loop: get_terminal_action on one line, then execute_command.
\* Add is offered while the list holds fewer than MaxItems items.
GetTerminalAction ==
    /\ pc = "command"
    /\ \E r \in CommandReads :
        LET u == read_user_input(r)
            action == terminal_action(u.text)
        IN /\ input' = r
           /\ IF u.panicked THEN Panic
              ELSE CASE action = "Quit" -> QuitExecute
                     [] action = "AddItem" -> Len(items) < MaxItems /\ AddExecute
                     [] action = "ModifyItem" -> ModifyExecute
                     [] action = "DeleteItem" -> DeleteExecute
                     [] action = "Show" -> ShowExecute
                     [] OTHER -> /\ Goto("command", Warn(INVALID_INPUT_MSG))
                                 /\ UNCHANGED <<items, item, user_item_idx>>

\* read_user_item, the filename loop
ReadFilename ==
    /\ pc = "add_filename"
    /\ \E r \in TextReads :
        LET u == read_user_input(r)
        IN /\ input' = r
           /\ IF u.panicked THEN Panic
              ELSE IF str_is_empty(u.text)
              THEN /\ Goto("add_filename", Warn(FILENAME_EMPTY_MSG))
                   /\ UNCHANGED <<items, item, user_item_idx>>
              ELSE /\ item' = [item EXCEPT !.filename = u.text]
                   /\ Goto("add_action", Silent)
                   /\ UNCHANGED <<items, user_item_idx>>

\* Mutant: the Add loop compares the input as typed, without to_uppercase.
add_action_of_AsTyped(user_input) ==
    IF to_str(Add) = user_input THEN [ok |-> TRUE, action |-> Add]
    ELSE IF to_str(Update) = user_input THEN [ok |-> TRUE, action |-> Update]
    ELSE IF to_str(Delete) = user_input THEN [ok |-> TRUE, action |-> Delete]
    ELSE [ok |-> FALSE, action |-> Add]

\* read_user_item, the action loop: the upper-cased line is compared with
\* the canonical strings in the order Add, Update, Delete.
add_action_of(user_input) ==
    LET t == to_uppercase(user_input)
    IN IF to_str(Add) = t THEN [ok |-> TRUE, action |-> Add]
       ELSE IF to_str(Update) = t THEN [ok |-> TRUE, action |-> Update]
       ELSE IF to_str(Delete) = t THEN [ok |-> TRUE, action |-> Delete]
       ELSE [ok |-> FALSE, action |-> Add]

\* Mutant: a rejected action starts the sub-flow over at the filename.
ReadAction_StartsOver ==
    /\ pc = "add_action"
    /\ \E r \in ActionReads :
        LET u == read_user_input(r)
            a == add_action_of(u.text)
        IN /\ input' = r
           /\ IF u.panicked THEN Panic
              ELSE IF a.ok
              THEN /\ item' = [item EXCEPT !.action = a.action]
                   /\ Goto("add_download_link", Silent)
                   /\ UNCHANGED <<items, user_item_idx>>
              ELSE /\ item' = ItemDefault
                   /\ Goto("add_filename", Warn(INVALID_INPUT_MSG))
                   /\ UNCHANGED <<items, user_item_idx>>

ReadAction ==
    /\ pc = "add_action"
    /\ \E r \in ActionReads :
        LET u == read_user_input(r)
            a == add_action_of(u.text)
        IN /\ input' = r
           /\ IF u.panicked THEN Panic
              ELSE IF a.ok
              THEN /\ item' = [item EXCEPT !.action = a.action]
                   /\ Goto("add_download_link", Silent)
                   /\ UNCHANGED <<items, user_item_idx>>
              ELSE /\ Goto("add_action", Warn(INVALID_INPUT_MSG))
                   /\ UNCHANGED <<items, item, user_item_idx>>

\* read_user_item, the download link loop, and the push of
\* AddItemCommand::execute once it returns the item
ReadDownloadLink ==
    /\ pc = "add_download_link"
    /\ \E r \in TextReads :
        LET u == read_user_input(r)
        IN /\ input' = r
           /\ IF u.panicked THEN Panic
              ELSE IF str_is_empty(u.text)
              THEN /\ Goto("add_download_link", Warn(FILENAME_EMPTY_MSG))
                   /\ UNCHANGED <<items, item, user_item_idx>>
              ELSE /\ items' = push(items, [item EXCEPT !.download_link = u.text])
                   /\ item' = ItemDefault
                   /\ Return("AddItem", Silent)
                   /\ UNCHANGED user_item_idx

\* DeleteItemCommand::execute: read_item_idx on one line, then remove
DeleteItem ==
    /\ pc = "delete_idx"
    /\ \E r \in IndexReads :
        LET u == read_user_input(r)
            sel == read_item_idx(u.text, items)
        IN /\ input' = r
           /\ IF u.panicked THEN Panic
              ELSE IF sel.accepted
              THEN /\ items' = remove(items, sel.idx)
                   /\ Return("DeleteItem", Silent)
                   /\ UNCHANGED <<item, user_item_idx>>
              ELSE /\ Goto("delete_idx", Output(sel.msg, <<>>, <<items>>))
                   /\ UNCHANGED <<items, item, user_item_idx>>

\* ModifyItemCommand::execute: read_item_idx on one line, then modify_item
\* up to the first prompt of read_user
ModifySelect ==
    /\ pc = "modify_idx"
    /\ \E r \in IndexReads :
        LET u == read_user_input(r)
            sel == read_item_idx(u.text, items)
        IN /\ input' = r
           /\ IF u.panicked THEN Panic
              ELSE IF sel.accepted
              THEN /\ user_item_idx' = sel.idx
                   /\ Goto("modify_choice", Silent)
                   /\ UNCHANGED <<items, item>>
              ELSE /\ Goto("modify_idx", Output(sel.msg, <<>>, <<items>>))
                   /\ UNCHANGED <<items, item, user_item_idx>>

\* ModifyItemCommand::read_user and the match of modify_item on its result
ModifyReadUser ==
    /\ pc = "modify_choice"
    /\ \E r \in ChoiceReads :
        LET u == read_user_input(r)
        IN /\ input' = r
           /\ IF u.panicked THEN Panic
              ELSE /\ CASE u.text = <<"1">> -> Goto("modify_filename", Silent)
                        [] u.text = <<"2">> -> Goto("modify_action", Silent)
                        [] u.text = <<"3">> -> Goto("modify_download_link", Silent)
                        [] OTHER -> Goto("modify_choice", Warn(INVALID_INPUT_MSG))
                   /\ UNCHANGED <<items, item, user_item_idx>>

\* The item modify_item borrows: self.items[user_item_idx]
set_filename(its, idx, text) == [its EXCEPT ![idx + 1].filename = text]
set_action(its, idx, action) == [its EXCEPT ![idx + 1].action = action]
\* Mutant: the arm also assigns the filename.
set_download_link_AlsoFilename(its, idx, text) ==
    [its EXCEPT ![idx + 1].download_link = text, ![idx + 1].filename = text]

set_download_link(its, idx, text) == [its EXCEPT ![idx + 1].download_link = text]

\* modify_item, arm "1"
ModifyFilename ==
    /\ pc = "modify_filename"
    /\ \E r \in TextReads :
        LET u == read_user_input(r)
        IN /\ input' = r
           /\ IF u.panicked THEN Panic
              ELSE IF str_is_empty(u.text)
              THEN /\ Goto("modify_filename", Warn(INVALID_INPUT_MSG))
                   /\ UNCHANGED <<items, item, user_item_idx>>
              ELSE /\ items' = set_filename(items, user_item_idx, u.text)
                   /\ user_item_idx' = 0
                   /\ Return("ModifyItem", Silent)
                   /\ UNCHANGED item

\* modify_item, arm "2"
ModifyAction ==
    /\ pc = "modify_action"
    /\ \E r \in ActionReads :
        LET u == read_user_input(r)
            a == try_from(u.text)
        IN /\ input' = r
           /\ IF u.panicked THEN Panic
              ELSE IF a.ok
              THEN /\ items' = set_action(items, user_item_idx, a.action)
                   /\ user_item_idx' = 0
                   /\ Return("ModifyItem", Silent)
                   /\ UNCHANGED item
              ELSE /\ Goto("modify_action", Warn(INVALID_INPUT_MSG))
                   /\ UNCHANGED <<items, item, user_item_idx>>

\* modify_item, arm "3"
ModifyDownloadLink ==
    /\ pc = "modify_download_link"
    /\ \E r \in TextReads :
        LET u == read_user_input(r)
        IN /\ input' = r
           /\ IF u.panicked THEN Panic
              ELSE IF str_is_empty(u.text)
              THEN /\ Goto("modify_download_link", Warn(INVALID_INPUT_MSG))
                   /\ UNCHANGED <<items, item, user_item_idx>>
              ELSE /\ items' = set_download_link(items, user_item_idx, u.text)
                   /\ user_item_idx' = 0
                   /\ Return("ModifyItem", Silent)
                   /\ UNCHANGED item

Next ==
    \/ GetTerminalAction
    \/ ReadFilename
    \/ ReadAction
    \/ ReadDownloadLink
    \/ DeleteItem
    \/ ModifySelect
    \/ ModifyReadUser
    \/ ModifyFilename
    \/ ModifyAction
    \/ ModifyDownloadLink

Spec == Init /\ [][Next]_vars

---------------------------------------------------------------------------
(* The action parsers on their own.

   Action::try_from (used by the Modify prompt), the upper-cased comparison
   of the Add loop and Action::to_str are pure; this specification applies
   them to one token, drawn by its Init from every letter-case spelling of
   the three canonical strings and from some tokens that spell none. *)

\* Every spelling of s with each letter in either case.
RECURSIVE CaseSpellings(_)
CaseSpellings(s) ==
    IF s = <<>> THEN { <<>> }
    ELSE { <<c>> \o r : c \in { Head(s), lower_char(Head(s)) }, r \in CaseSpellings(Tail(s)) }

ActionTokens ==
    UNION { CaseSpellings(to_str(a)) : a \in Action }
      \cup { <<>>, <<"R","E","M","O","V","E">>, <<"A","D">>, <<"A","D","D","D">>,
             <<"A"," ","D","D">>, <<"U","P","D","A","T","E","S">>, <<"D","E","L">>,
             <<"0">> }

ActionTokenReads ==
    { ReadOk(NL(t)) : t \in ActionTokens } \cup { ReadOk(<<" ", "a", "d", "d", " ", "\n">>) }

InitAction ==
    /\ items = <<>>
    /\ pc = "try_from"
    /\ item = ItemDefault
    /\ user_item_idx = 0
    /\ input \in ActionTokenReads
    /\ out = Silent
    /\ exit_code = <<>>
    /\ executed = ""

\* modify_item, arm "2": Action::try_from on what read_user_input returned;
\* Ok(action) is kept in item.action
TryFromStep ==
    /\ pc = "try_from"
    /\ LET a == try_from(read_user_input(input).text)
       IN IF a.ok
          THEN /\ pc' = "parsed"
               /\ item' = [item EXCEPT !.action = a.action]
          ELSE /\ pc' = "parse_error"
               /\ item' = item
    /\ UNCHANGED <<items, user_item_idx, input, out, exit_code, executed>>

\* read_user_item, the action loop: the upper-cased input compared with the
\* canonical strings; a match is kept in item.action
AddMatchStep ==
    /\ pc = "try_from"
    /\ LET a == add_action_of(read_user_input(input).text)
       IN IF a.ok
          THEN /\ pc' = "add_matched"
               /\ item' = [item EXCEPT !.action = a.action]
          ELSE /\ pc' = "add_rejected"
               /\ item' = item
    /\ UNCHANGED <<items, user_item_idx, input, out, exit_code, executed>>

\* Action::to_str on the parsed action; out.json holds the string written
\* for it
ToStrStep ==
    /\ pc = "parsed"
    /\ pc' = "serialized"
    /\ out' = Output(NoMsg, <<to_str(item.action)>>, <<>>)
    /\ UNCHANGED <<items, item, user_item_idx, input, exit_code, executed>>

NextAction ==
    \/ TryFromStep
    \/ AddMatchStep
    \/ ToStrStep

ActionSpec == InitAction /\ [][NextAction]_vars

---------------------------------------------------------------------------
(* Properties *)

\* The token a line carries: the line without its surrounding white space,
\* nothing when the read failed.
Token(r) == IF r.flushed /\ r.ok THEN trim(r.buf) ELSE <<>>

\* C1: in every reachable state every Item of the list has a non-empty
\* filename and a non-empty download_link.
C1_ItemsNonEmpty ==
    \A i \in 1..Len(items) :
        /\ Len(items[i].filename) > 0
        /\ Len(items[i].download_link) > 0

\* A line of white space has just been rejected by Modify's download link
\* prompt on a list of two items built by Add.
C1_Witness ==
    /\ pc = "modify_download_link"
    /\ Len(items) = 2
    /\ input = ReadOk(<<" ", "\t", "\n">>)
    /\ out.msg = INVALID_INPUT_MSG

\* The value a JSON object holds under `key` (the set of them: one when the
\* key occurs once).
JsonValues(obj, key) == { obj[j].value : j \in { n \in 1..Len(obj) : obj[n].key = key } }

\* The canonical uppercase string of an action, written out.
CanonicalString(a) ==
    IF a = "Add" THEN <<"A","D","D">>
    ELSE IF a = "Delete" THEN <<"D","E","L","E","T","E">>
    ELSE <<"U","P","D","A","T","E">>

\* C2: the JSON written by Show or Quit is an array with exactly one object
\* per item, in list order; object i carries mod_filename = item i's
\* filename, action = the canonical uppercase string of item i's action and
\* download_link = item i's download link, and nothing else.
C2_JsonMatchesItems ==
    out.json # <<>> =>
        LET arr == out.json[1]
        IN /\ Len(arr) = Len(items)
           /\ \A i \in 1..Len(arr) :
                /\ Len(arr[i]) = 3
                /\ JsonValues(arr[i], "mod_filename") = {items[i].filename}
                /\ JsonValues(arr[i], "action") = {CanonicalString(items[i].action)}
                /\ JsonValues(arr[i], "download_link") = {items[i].download_link}

\* Show has just printed a list of two items that differ in every field.
C2_Witness ==
    /\ executed = "Show"
    /\ out.json # <<>>
    /\ Len(items) = 2
    /\ items[1].action = Delete
    /\ items[2].action = Update
    /\ items[1].filename # items[2].filename
    /\ items[1].download_link # items[2].download_link

\* C3: in every object of the emitted JSON the keys appear in the order
\* mod_filename, action, download_link.
C3_KeyOrder ==
    out.json # <<>> =>
        \A i \in 1..Len(out.json[1]) :
            [j \in 1..Len(out.json[1][i]) |-> out.json[1][i][j].key]
                = <<"mod_filename", "action", "download_link">>


\* A string of z zeros.
Zeros(z) == [i \in 1..z |-> "0"]

\* The token t denotes the integer n (0 <= n <= 9) in decimal: an optional
\* plus sign, any number of leading zeros, the digit of n.
Denotes(t, n) ==
    \E z \in 0..Len(t) : \E sign \in {<<>>, <<"+">>} :
        t = sign \o Zeros(z) \o <<Digits[n + 1]>>

\* The token t spells the canonical string canon in some letter case.
CaseVariant(t, canon) ==
    /\ Len(t) = Len(canon)
    /\ \A i \in 1..Len(t) :
        \/ t[i] = canon[i]
        \/ /\ Occurs(UpperLetters, canon[i])
           /\ t[i] = LowerLetters[IndexIn(UpperLetters, canon[i])]

\* The list `its` without its k-th item (k counted from 1).
WithoutKth(its, k) == [j \in 1..(Len(its) - 1) |-> IF j < k THEN its[j] ELSE its[j + 1]]

\* C4: one completed Add on a list of length N yields a list of length N+1
\* whose first N items are unchanged and in the same order and whose last
\* item has the entered filename, the action named by the entered token and
\* the entered download link.  Stated prompt by prompt: the filename prompt
\* stores the entered filename, the action prompt the action the token
\* names (keeping the filename), the download link prompt appends the item
\* with the entered link; the list does not change before that.
C4_AddAppends ==
    [][ /\ (pc = "add_filename" /\ pc' = "add_action") =>
              /\ item'.filename = Token(input')
              /\ items' = items
        /\ (pc = "add_action" /\ pc' = "add_download_link") =>
              /\ CaseVariant(Token(input'), CanonicalString(item'.action))
              /\ item'.filename = item.filename
              /\ items' = items
        /\ (pc = "add_download_link" /\ pc' = "command") =>
              /\ Len(items') = Len(items) + 1
              /\ \A j \in 1..Len(items) : items'[j] = items[j]
              /\ items'[Len(items')] = [filename |-> item.filename,
                                        action |-> item.action,
                                        download_link |-> Token(input')]
      ]_vars

\* Add has just returned, having appended (b, Update, a) to a list of one
\* different item.
C4_Witness ==
    /\ executed = "AddItem"
    /\ Len(items) = 2
    /\ items[2] = [filename |-> <<"b">>, action |-> Update, download_link |-> <<"a">>]
    /\ items[1] # items[2]
    /\ Token(input) = <<"a">>

\* C5: deleting index k (1-based, 1 <= k <= length) removes exactly the item
\* at position k, leaves the items before k in place, shifts every item
\* after k down by one position and decreases the length by exactly 1.
C5_DeleteShifts ==
    [][ (pc = "delete_idx" /\ pc' = "command") =>
            \E k \in 1..Len(items) :
                /\ Denotes(Token(input'), k)
                /\ Len(items') = Len(items) - 1
                /\ \A j \in 1..(k - 1) : items'[j] = items[j]
                /\ \A j \in k..Len(items') : items'[j] = items[j + 1]
      ]_vars

\* Delete has just removed item 1 of a list of two items: the item that was
\* second is the only one left.
C5_Witness ==
    /\ executed = "DeleteItem"
    /\ out = Silent
    /\ Token(input) = <<"1">>
    /\ Len(items) = 1

\* C6: Modify overwrites only the targeted field of the selected item: the
\* other two fields of that item, every other item, the length and the
\* order of the list are unchanged; the list does not change while the
\* index and the field are being chosen, and the field choice 1, 2, 3 leads
\* to the filename, action, download link prompt.
C6_ModifyFrame ==
    [][ /\ pc \in {"modify_idx", "modify_choice"} => items' = items
        /\ (pc = "modify_choice" /\ input'.flushed) =>
              /\ user_item_idx' = user_item_idx
              /\ Token(input') = <<"1">> => pc' = "modify_filename"
              /\ Token(input') = <<"2">> => pc' = "modify_action"
              /\ Token(input') = <<"3">> => pc' = "modify_download_link"
        /\ pc \in {"modify_filename", "modify_action", "modify_download_link"} =>
              LET k == user_item_idx + 1
              IN /\ Len(items') = Len(items)
                 /\ \A j \in 1..Len(items) : j # k => items'[j] = items[j]
                 /\ pc # "modify_filename" => items'[k].filename = items[k].filename
                 /\ pc # "modify_action" => items'[k].action = items[k].action
                 /\ pc # "modify_download_link" =>
                        items'[k].download_link = items[k].download_link
                 /\ (pc = "modify_filename" /\ pc' = "command") =>
                        items'[k].filename = Token(input')
                 /\ (pc = "modify_action" /\ pc' = "command") =>
                        CaseVariant(Token(input'), CanonicalString(items'[k].action))
                 /\ (pc = "modify_download_link" /\ pc' = "command") =>
                        items'[k].download_link = Token(input')
      ]_vars

\* Modify has just returned, having set the download link of one item to b
\* while its filename is a and a second item is in the list.
C6_Witness ==
    /\ executed = "ModifyItem"
    /\ out = Silent
    /\ Len(items) = 2
    /\ Token(input) = <<"b">>
    /\ \E k \in 1..2 : items[k].download_link = <<"b">> /\ items[k].filename = <<"a">>
    /\ \E k \in 1..2 : items[k].download_link = <<"a">>

\* C7: index selection on a list of the current length accepts exactly the
\* tokens that denote an integer n in 1..length and returns n - 1 as the
\* zero-based index (Modify keeps it, Delete removes the item at it); every
\* other token, 0 and the values greater than the length among them, is
\* rejected and the index is prompted again.
C7_IndexSelection ==
    [][ (pc \in {"delete_idx", "modify_idx"} /\ input'.flushed) =>
            IF \E n \in 1..Len(items) : Denotes(Token(input'), n)
            THEN LET n == CHOOSE n \in 1..Len(items) : Denotes(Token(input'), n)
                 IN IF pc = "modify_idx"
                    THEN pc' = "modify_choice" /\ user_item_idx' = n - 1 /\ items' = items
                    ELSE pc' = "command" /\ items' = WithoutKth(items, n)
            ELSE pc' = pc /\ items' = items /\ user_item_idx' = user_item_idx
      ]_vars

\* Modify's index selection has just accepted " +01 " on a list of two items.
C7_Witness ==
    /\ pc = "modify_choice"
    /\ input = ReadOk(<<" ", "+", "0", "1", " ", "\n">>)
    /\ user_item_idx = 0
    /\ Len(items) = 2

\* C8: Delete and Modify executed on an empty list are no-ops: they print
\* their warning and return to the dispatcher without prompting for an
\* index (no listing), and the list is unchanged.
C8_EmptyListNoOp ==
    [][ (pc = "command" /\ Len(items) = 0 /\ input'.flushed
            /\ Token(input') \in {<<"d">>, <<"D">>, <<"m">>, <<"M">>}) =>
            /\ pc' = "command"
            /\ items' = items
            /\ out' = Output(IF Token(input') \in {<<"d">>, <<"D">>}
                             THEN "WARNING: no items, cannot delete."
                             ELSE "WARNING: no items, cannot modify.", <<>>, <<>>)
      ]_vars

\* Delete has just returned with its warning on an empty list.
C8_Witness ==
    /\ executed = "DeleteItem"
    /\ Token(input) = <<"d">>
    /\ items = <<>>
    /\ out.msg = NO_ITEMS_DELETE_MSG
    /\ pc = "command"

\* The tokens the prompt p rejects on a list of length len, written out.
Rejected(p, t, len) ==
    CASE p = "command" ->
            t \notin {<<"q">>, <<"Q">>, <<"a">>, <<"A">>, <<"m">>, <<"M">>,
                      <<"d">>, <<"D">>, <<"s">>, <<"S">>}
      [] p \in {"delete_idx", "modify_idx"} -> ~\E n \in 1..len : Denotes(t, n)
      [] p = "modify_choice" -> t \notin {<<"1">>, <<"2">>, <<"3">>}
      [] p \in {"add_action", "modify_action"} ->
            ~\E a \in Action : CaseVariant(t, CanonicalString(a))
      [] p \in {"add_filename", "add_download_link",
                "modify_filename", "modify_download_link"} -> t = <<>>
      [] OTHER -> FALSE

\* C9: a re-prompt never consumes list state: an invalid input at the
\* command prompt, at index selection, at the Modify field choice or at any
\* field-value prompt leaves the list (and the item under construction and
\* the selected index) unchanged and is answered by a warning and the same
\* prompt again.
C9_RepromptKeepsList ==
    [][ (input'.flushed /\ Rejected(pc, Token(input'), Len(items))) =>
            /\ items' = items
            /\ item' = item
            /\ user_item_idx' = user_item_idx
            /\ pc' = pc
            /\ out'.msg # NoMsg
      ]_vars

\* Delete's index selection has just rejected a token on a list of two
\* items with the out-of-bounds warning.
C9_Witness ==
    /\ pc = "delete_idx"
    /\ Len(items) = 2
    /\ out.msg = OUT_OF_BOUNDS_MSG
    /\ out.listing = <<items>>

C11_QuitExits ==
    [][ /\ pc # "exited"
        /\ (pc = "command" /\ input'.flushed /\ Token(input') \in {<<"q">>, <<"Q">>}) =>
              /\ pc' = "exited"
              /\ exit_code' = <<0>>
              /\ items' = items
              /\ out'.msg = ""
              /\ out'.listing = <<>>
              /\ Len(items) > 0 => (Len(out'.json) = 1 /\ Len(out'.json[1]) = Len(items))
              /\ Len(items) = 0 => out'.json = <<>>
      ]_vars

\* Quit has printed the JSON of a list of two items and ended the process
\* with exit code 0.
C11_Witness ==
    /\ pc = "exited"
    /\ exit_code = <<0>>
    /\ Len(items) = 2
    /\ Len(out.json) = 1
    /\ Token(input) = <<"q">>

\* C12: an empty list is never serialized: whenever a step has written JSON
\* it was Show or Quit on a non-empty list, so the array written is never
\* empty.
C12_EmptyNeverSerialized ==
    out.json # <<>> =>
        /\ Len(items) > 0
        /\ Len(out.json[1]) > 0
        /\ executed = "Show" \/ pc = "exited"

\* Show on an empty list has just returned with its warning and no JSON.
C12_Witness ==
    /\ executed = "Show"
    /\ items = <<>>
    /\ out.json = <<>>
    /\ out.msg = NO_ITEMS_SHOW_MSG

\* C13: the action round trip.  Every letter-case spelling of a canonical
\* string (ADD, DELETE, UPDATE, add, Delete, uPDATE, ...) parses, and the
\* canonical string of the parsed Action is the uppercase form of the token;
\* a token that parses is such a spelling; and parsing the canonical string
\* of an Action gives that Action back.
C13_ActionRoundTrip ==
    LET t == Token(input)
    IN /\ pc = "parse_error" => \A a \in Action : ~CaseVariant(t, CanonicalString(a))
       /\ pc \in {"parsed", "serialized"} => CaseVariant(t, CanonicalString(item.action))
       /\ pc = "serialized" =>
             /\ out.json = <<CanonicalString(item.action)>>
             /\ try_from(out.json[1]) = [ok |-> TRUE, action |-> item.action]

\* The token uPDATE has been parsed and converted back to UPDATE.
C13_Witness ==
    /\ pc = "serialized"
    /\ Token(input) = <<"u","P","D","A","T","E">>
    /\ item.action = "Update"
    /\ out.json = << <<"U","P","D","A","T","E">> >>

\* C14: an action token that spells none of the canonical strings (REMOVE,
\* the empty string) fails instead of defaulting: parsing it is an error, the
\* Add sub-flow warns and asks for the action again with the item under
\* construction untouched, and Modify warns and asks again with every item of
\* the list, the action of the selected one included, unchanged.
C14_UnrecognizedActionFails ==
    [][ LET t == Token(input')
        IN (/\ pc \in {"add_action", "modify_action"}
            /\ input'.flushed
            /\ \A a \in Action : ~CaseVariant(t, CanonicalString(a))) =>
              /\ ~try_from(t).ok
              /\ pc' = pc
              /\ out' = [msg |-> "WARNING: Invalid input, please try again.",
                         json |-> <<>>, listing |-> <<>>]
              /\ item' = item
              /\ items' = items
              /\ user_item_idx' = user_item_idx
      ]_vars

\* Modify has rejected REMOVE for an item whose action is Delete, which it
\* still is, and asks for the action again.
C14_Witness ==
    /\ pc = "modify_action"
    /\ Token(input) = <<"R","E","M","O","V","E">>
    /\ out.msg = INVALID_INPUT_MSG
    /\ items[user_item_idx + 1].action = "Delete"

\* The prompts a command stays at between its dispatch and its return.
PromptsOf(command) ==
    IF command = "AddItem" THEN {"add_filename", "add_action", "add_download_link"}
    ELSE IF command = "DeleteItem" THEN {"delete_idx"}
    ELSE IF command = "ModifyItem"
    THEN {"modify_idx", "modify_choice", "modify_filename", "modify_action",
          "modify_download_link"}
    ELSE {}

\* C15: the dispatcher runs exactly one command per recognized token.  A
\* token that is q, a, m, d or s in either case starts Quit, Add, Modify,
\* Delete or Show: Quit ends the process, Show and the commands refused on an
\* empty list return at once, the others go to their first prompt; a command
\* in progress stays at its own prompts until it returns, once, to the
\* command prompt.  Any other token gets the generic warning and the command
\* prompt again, and no command runs.
C15_OneCommandPerToken ==
    [][ LET t == Token(input')
            Started(command) ==
                \/ pc' = "command" /\ executed' = command
                \/ pc' \in PromptsOf(command) /\ executed' = ""
        IN /\ (pc = "command" /\ input'.flushed) =>
                CASE t \in {<<"q">>, <<"Q">>} -> pc' = "exited" /\ executed' = ""
                  [] t \in {<<"a">>, <<"A">>} -> pc' = "add_filename" /\ executed' = ""
                  [] t \in {<<"m">>, <<"M">>} -> Started("ModifyItem")
                  [] t \in {<<"d">>, <<"D">>} -> Started("DeleteItem")
                  [] t \in {<<"s">>, <<"S">>} -> pc' = "command" /\ executed' = "Show"
                  [] OTHER -> /\ pc' = "command"
                              /\ executed' = ""
                              /\ out' = [msg |-> "WARNING: Invalid input, please try again.",
                                         json |-> <<>>, listing |-> <<>>]
                              /\ items' = items
           /\ \A command \in {"AddItem", "DeleteItem", "ModifyItem"} :
                pc \in PromptsOf(command) =>
                    \/ pc' \in PromptsOf(command) /\ executed' = ""
                    \/ pc' = "command" /\ executed' = command
                    \/ pc' = "panicked" /\ executed' = ""
      ]_vars

\* The token M, typed in upper case on an empty list, ran Modify, which
\* returned with its warning.
C15_Witness ==
    /\ pc = "command"
    /\ executed = "ModifyItem"
    /\ Token(input) = <<"M">>
    /\ out.msg = NO_ITEMS_MODIFY_MSG

\* What a prompt answers to an empty line.
EmptyLineWarning(p) ==
    IF p \in {"add_filename", "add_download_link"}
    THEN "WARNING: filename is empty, please try again."
    ELSE "WARNING: Invalid input, please try again."

\* C16: a read failure or the end of the input never ends the process.  At
\* every prompt either one is answered exactly as an empty line is: the
\* warning of that prompt (with the list again at an index prompt) and the
\* same prompt once more, the process still running, no command run and the
\* list, the item under construction and the selected index untouched.  So
\* once every read meets the end of the input the process stays at its
\* prompt for ever and the list never changes again.
C16_ReadFailureReprompts ==
    [][ (input'.flushed /\ (~input'.ok \/ input'.buf = <<>> \/ Token(input') = <<>>)) =>
            /\ pc' = pc
            /\ pc' \notin {"exited", "panicked"}
            /\ exit_code' = <<>>
            /\ executed' = ""
            /\ items' = items
            /\ item' = item
            /\ user_item_idx' = user_item_idx
            /\ out' = [msg |-> EmptyLineWarning(pc), json |-> <<>>,
                       listing |-> IF pc \in {"delete_idx", "modify_idx"}
                                   THEN <<items>> ELSE <<>>]
      ]_vars

\* read_line failed at the prompt for the index of the item to delete: the
\* generic warning, the list again, the same prompt, nothing deleted.
C16_Witness ==
    /\ pc = "delete_idx"
    /\ input = [flushed |-> TRUE, ok |-> FALSE, buf |-> <<>>]
    /\ out.msg = INVALID_INPUT_MSG
    /\ out.listing = <<items>>
    /\ exit_code = <<>>

\* C17: the sub-flow that collects a new item asks for the filename, then
\* the action, then the download link.  Each prompt is entered only from the
\* one before it or from itself; an accepted value moves to the next prompt
\* and a rejected one stays at the same prompt with the values accepted so
\* far untouched; the list changes only in the step that accepts the
\* download link, which appends the completed item.
C17_AddFlowOrder ==
    [][ LET t == Token(input')
            spelled == \E a \in Action : CaseVariant(t, CanonicalString(a))
        IN /\ pc' = "add_filename" => pc \in {"command", "add_filename"}
           /\ pc' = "add_action" => pc \in {"add_filename", "add_action"}
           /\ pc' = "add_download_link" => pc \in {"add_action", "add_download_link"}
           /\ (pc = "add_filename" /\ input'.flushed) =>
                 /\ items' = items
                 /\ IF t # <<>>
                    THEN pc' = "add_action" /\ item'.filename = t
                    ELSE pc' = "add_filename" /\ item' = item
           /\ (pc = "add_action" /\ input'.flushed) =>
                 /\ items' = items
                 /\ item'.filename = item.filename
                 /\ IF spelled
                    THEN /\ pc' = "add_download_link"
                         /\ CaseVariant(t, CanonicalString(item'.action))
                    ELSE pc' = "add_action" /\ item' = item
           /\ (pc = "add_download_link" /\ input'.flushed) =>
                 IF t # <<>>
                 THEN /\ pc' = "command"
                      /\ executed' = "AddItem"
                      /\ items' = Append(items, [filename |-> item.filename,
                                                 action |-> item.action,
                                                 download_link |-> t])
                 ELSE pc' = "add_download_link" /\ item' = item /\ items' = items
      ]_vars

\* An empty download link has been rejected: the prompt is the same, and the
\* filename and the action accepted before it are still there.
C17_Witness ==
    /\ pc = "add_download_link"
    /\ out.msg = FILENAME_EMPTY_MSG
    /\ item.filename = <<"b">>
    /\ item.action = "Update"
    /\ Len(items) = 1

\* The digits of a token written as an unsigned decimal number: what follows
\* an optional plus sign.
DecimalDigits(t) == IF t # <<>> /\ t[1] = "+" THEN Tail(t) ELSE t

\* The token is numeric: an optional plus sign and one or more digits.
Numeric(t) ==
    /\ DecimalDigits(t) # <<>>
    /\ \A i \in 1..Len(DecimalDigits(t)) : Occurs(Digits, DecimalDigits(t)[i])

\* The digits of a numeric token from its first non-zero digit on.
Significant(t) ==
    LET d == DecimalDigits(t)
        z == CHOOSE n \in 0..Len(d) :
                /\ \A i \in 1..n : d[i] = "0"
                /\ n = Len(d) \/ d[n + 1] # "0"
    IN SubSeq(d, z + 1, Len(d))

\* The numeric token is 0 or greater than len (len <= 9).
ZeroOrGreater(t, len) ==
    \/ Significant(t) = <<>>
    \/ Len(Significant(t)) >= 2
    \/ IndexIn(Digits, Significant(t)[1]) - 1 > len

\* C18: in index selection a numeric token that is 0 or greater than the
\* length of the list gets the index-out-of-bounds warning and a token that
\* is not numeric gets the generic invalid-input warning; either way the
\* list is displayed again and the index is asked for again.
C18_WarningByKind ==
    [][ LET t == Token(input')
        IN (pc \in {"delete_idx", "modify_idx"} /\ input'.flushed /\ input'.ok) =>
              /\ (Numeric(t) /\ ZeroOrGreater(t, Len(items))) =>
                    /\ out' = [msg |-> "WARNING: index out of bounds, please try again.",
                               json |-> <<>>, listing |-> <<items>>]
                    /\ pc' = pc
                    /\ items' = items
              /\ ~Numeric(t) =>
                    /\ out' = [msg |-> "WARNING: Invalid input, please try again.",
                               json |-> <<>>, listing |-> <<items>>]
                    /\ pc' = pc
                    /\ items' = items
      ]_vars

\* C19: the Add sub-flow and the Modify action prompt accept the same action
\* tokens and give every accepted token the same Action: what the
\* upper-cased comparison of Add matches, the case-insensitive parse of
\* Modify parses to the same Action, and what one rejects the other rejects.
C19_SameActionTokens ==
    LET t == Token(input)
    IN /\ pc = "add_matched" => try_from(t) = [ok |-> TRUE, action |-> item.action]
       /\ pc = "add_rejected" => ~try_from(t).ok
       /\ pc = "parsed" => add_action_of(t) = [ok |-> TRUE, action |-> item.action]
       /\ pc = "parse_error" => ~add_action_of(t).ok

\* The comparison of the Add loop has matched the mixed-case token dElEtE
\* with Delete.
C19_Witness ==
    /\ pc = "add_matched"
    /\ Token(input) = <<"d","E","l","E","t","E">>
    /\ item.action = "Delete"

\* The text neither begins nor ends with white space.
NoOuterWhitespace(s) ==
    s # <<>> => /\ s[1] \notin {" ", "\t", "\n", "\r"}
                /\ s[Len(s)] \notin {" ", "\t", "\n", "\r"}

\* C20: in every reachable state no stored filename and no stored download
\* link begins or ends with white space, whether Add or Modify stored it;
\* the same holds of the values of the item under construction.
C20_StoredTextTrimmed ==
    /\ \A i \in 1..Len(items) :
          /\ NoOuterWhitespace(items[i].filename)
          /\ NoOuterWhitespace(items[i].download_link)
    /\ NoOuterWhitespace(item.filename)
    /\ NoOuterWhitespace(item.download_link)

\* Modify has just stored the download link typed as " b\r\n": the item
\* holds "b".
C20_Witness ==
    /\ executed = "ModifyItem"
    /\ input = [flushed |-> TRUE, ok |-> TRUE, buf |-> <<" ", "b", "\r", "\n">>]
    /\ \E i \in 1..Len(items) :
          items[i].download_link = <<"b">> /\ items[i].filename = <<"a">>

============================================================================
